---- MODULE Spec2Model ----
(***************************************************************************)
(* engram: a collection-scoped semantic memory store (src/main.py).        *)
(*                                                                         *)
(* The store is one SQLite database with three tables: memories (the       *)
(* records), memory_vecs (vec0 vector index) and memory_fts (fts5 text     *)
(* index).  Every tool call opens its own connection with get_db(), so     *)
(* calls running at the same time are separate connections: a connection   *)
(* sees the committed tables, its own uncommitted rows live in tx[c], and  *)
(* SQLite lets one connection write at a time.                             *)
(*                                                                         *)
(* Abstractions: a text is a sequence of distinct tokens; an embedding is  *)
(* a point on a line and the vector distance the absolute difference; the  *)
(* embedding service is a fixed but unknown map from texts to points;      *)
(* created_at is a clock with one-second resolution (datetime('now'));     *)
(* a fusion score is an exact fraction <<num, den>>.                       *)
(***************************************************************************)
EXTENDS Integers, Sequences, FiniteSets, TLC

(* ---------------------------- bounds ----------------------------------- *)

\* records the concurrent specification lets the store hold
MaxMemories == 2
\* records the search specification lets the store hold
MaxSearch == 3
\* records the round-trip specification lets the store hold
MaxRoundTrip == 6
\* records of the other collection in the round-trip specification
MaxOther == 0
\* records the sampler specification lets the store hold
MaxRecall == 21
\* records of the other collection in the sampler specification
MaxRecallOther == 0
\* last second the clock reaches
MaxClock == 1
\* longest ranking handed to the fusion in the fusion specification
MaxRankLen == 3
\* ids the fusion specification ranks are 1..MaxRankId
MaxRankId == 3

(* ------------------------- program constants --------------------------- *)

\* reciprocal_rank_fusion(rankings, k = 60)
RRF_K == 60
\* top_k * 10 candidates are fetched from each index
OverFetch == 10
\* LIMIT 20 of the 'recent' and 'old' pools
PoolSize == 20
\* search_memory(collection, query, top_k = 5)
DefaultTopK == 5

Conns == {1, 2}
Collections == {"c1", "c2"}
Hello == <<"hello">>
HelloWorld == <<"hello", "world">>
Texts == {Hello, HelloWorld}
\* two points of the embedding space
Vectors == {0, 1}
\* an embedding whose length is not EMBED_DIMS
BadVector == -1
Ages == {"recent", "old", "any"}
\* SQL leaves the order of rows with equal sort keys open: a statement
\* meets them in ascending or in descending rowid order
TieOrders == {"asc", "desc"}

(* ------------------------- sequences and sets -------------------------- *)

Range(s) == {s[i] : i \in 1..Len(s)}

\* the slice one short
TakeShort(s, n) ==
  IF n - 1 >= Len(s) THEN s ELSE IF n - 1 <= 0 THEN <<>> ELSE SubSeq(s, 1, n - 1)

\* s[:n] and LIMIT n, for n >= 0
Take(s, n) == IF n >= Len(s) THEN s ELSE IF n <= 0 THEN <<>> ELSE SubSeq(s, 1, n)

Max(S) == CHOOSE x \in S : \A y \in S : y <= x

Abs(x) == IF x < 0 THEN -x ELSE x

\* ORDER BY key: the ids in ascending key order, equal keys in tie order
RECURSIVE OrderBy(_, _, _)
OrderBy(ids, key, ties) ==
  IF ids = {} THEN <<>>
  ELSE LET first == CHOOSE i \in ids : \A j \in ids \ {i} :
                        \/ key[i] < key[j]
                        \/ /\ key[i] = key[j]
                           /\ IF ties = "asc" THEN i < j ELSE i > j
       IN <<first>> \o OrderBy(ids \ {first}, key, ties)

(* --------------------------- rank fusion ------------------------------- *)

\* scores.get(doc_id, 0) + 1 / (k + rank + 1) on the insertion-ordered dict:
\* an id met for the first time is appended, a known one keeps its place.
\* A score num/den is exact; the sums the search builds have two terms with
\* denominators below 2^7, far apart enough for floats to order them alike.
\* the score overwritten where it should be added to
AddScoreOverwrite(scores, doc_id, d) ==
  IF \E i \in 1..Len(scores) : scores[i].id = doc_id
  THEN LET i == CHOOSE j \in 1..Len(scores) : scores[j].id = doc_id
       IN SubSeq(scores, 1, i - 1)
          \o <<[id |-> doc_id, num |-> 1, den |-> d]>>
          \o SubSeq(scores, i + 1, Len(scores))
  ELSE Append(scores, [id |-> doc_id, num |-> 1, den |-> d])

AddScore(scores, doc_id, d) ==
  IF \E i \in 1..Len(scores) : scores[i].id = doc_id
  THEN LET i == CHOOSE j \in 1..Len(scores) : scores[j].id = doc_id
       IN SubSeq(scores, 1, i - 1)
          \o <<[id |-> doc_id,
                num |-> scores[i].num * d + scores[i].den,
                den |-> scores[i].den * d]>>
          \o SubSeq(scores, i + 1, Len(scores))
  ELSE Append(scores, [id |-> doc_id, num |-> 1, den |-> d])

\* for rank, doc_id in enumerate(ranking)
RECURSIVE ScoreRanking(_, _, _, _)
ScoreRanking(scores, ranking, rank, k) ==
  IF rank >= Len(ranking) THEN scores
  ELSE ScoreRanking(AddScore(scores, ranking[rank + 1], k + rank + 1),
                    ranking, rank + 1, k)

\* for ranking in rankings
RECURSIVE ScoreRankings(_, _, _)
ScoreRankings(scores, rankings, k) ==
  IF rankings = <<>> THEN scores
  ELSE ScoreRankings(ScoreRanking(scores, Head(rankings), 0, k), Tail(rankings), k)

ScoreGeq(x, y) == x.num * y.den >= y.num * x.den

\* one item placed after every item of the sorted list that scores at least
\* as much: equal scores stay in their original order
InsertByScore(sorted, x) ==
  LET p == Cardinality({i \in 1..Len(sorted) : ScoreGeq(sorted[i], x)})
  IN SubSeq(sorted, 1, p) \o <<x>> \o SubSeq(sorted, p + 1, Len(sorted))

\* sorted(items, key = score, reverse = True): stable, descending
RECURSIVE SortedByScore(_)
SortedByScore(items) ==
  IF items = <<>> THEN <<>>
  ELSE InsertByScore(SortedByScore(SubSeq(items, 1, Len(items) - 1)),
                     items[Len(items)])

reciprocal_rank_fusion(rankings, k) ==
  SortedByScore(ScoreRankings(<<>>, rankings, k))

\* f"{score:.3f}": the score in thousandths, rounded to nearest
Format3(x) == (2000 * x.num + x.den) \div (2 * x.den)

(* ------------------------------- state --------------------------------- *)

VARIABLES
  memories,         \* committed rows of memories: [id, collection, text, created_at]
  memory_vecs,      \* committed rows of memory_vecs: [rowid, embedding]
  memory_fts,       \* committed rows of memory_fts: [rowid, text]
  sqlite_sequence,  \* AUTOINCREMENT: the largest id memories ever committed
  now,              \* datetime('now'), in seconds
  embedModel,       \* the embedding service: text -> vector
  pc,               \* pc[c]: where the call on connection c stands
  call,             \* call[c]: the tool and its arguments
  tx,               \* tx[c]: the open transaction of c and its uncommitted rows
  local,            \* local[c]: embedding, memory_id, vec_ids, fts_ids
  result,           \* result[c]: what the last call on c returned or raised
  rankings,         \* fusion specification: the rankings handed to the fusion
  fused             \* fusion specification: what the fusion returned

store == <<memories, memory_vecs, memory_fts, sqlite_sequence>>
vars == <<memories, memory_vecs, memory_fts, sqlite_sequence, now, embedModel,
          pc, call, tx, local, result, rankings, fused>>

NoTx == [open |-> FALSE, memories |-> {}, vecs |-> {}, fts |-> {}, seq |-> 0]
NoLocal == [embedding |-> BadVector, memory_id |-> 0, vec_ids |-> <<>>, fts_ids |-> <<>>]
NoCall == [op |-> "none", collection |-> "c1", text |-> Hello, top_k |-> 0, age |-> "any"]
NoResult == [kind |-> "none"]

\* what connection c reads: the committed rows and its own uncommitted ones
ViewMemories(c) == memories \cup tx[c].memories
ViewVecs(c) == memory_vecs \cup tx[c].vecs
ViewFts(c) == memory_fts \cup tx[c].fts

Ids(rows) == {r.id : r \in rows}
Rowids(rows) == {r.rowid : r \in rows}
Row(rows, id) == CHOOSE r \in rows : r.id = id

\* SQLite has one writer: a statement that writes waits for the connection
\* holding the write lock, and raises "database is locked" when the wait
\* (5 s by default) runs out
LockFree(c) == \A d \in DOMAIN tx \ {c} : ~tx[d].open

\* the services the model tries: distances do not change when every point is
\* mirrored, so the two texts embed to one point or to the two points
Models == {m \in [Texts -> Vectors] : m[Hello] = 0}

InitStore ==
  /\ memories = {}
  /\ memory_vecs = {}
  /\ memory_fts = {}
  /\ sqlite_sequence = 0
  /\ now = 0

InitCalls ==
  /\ pc = [c \in Conns |-> "idle"]
  /\ call = [c \in Conns |-> NoCall]
  /\ tx = [c \in Conns |-> NoTx]
  /\ local = [c \in Conns |-> NoLocal]
  /\ result = [c \in Conns |-> NoResult]

Init ==
  /\ InitStore
  /\ InitCalls
  /\ embedModel \in Models
  /\ rankings = <<>>
  /\ fused = <<>>

\* a tool call arrives on connection c
Call(c, op, collection, text, top_k, age) ==
  /\ pc[c] = "idle"
  /\ pc' = [pc EXCEPT ![c] = "get_db"]
  /\ call' = [call EXCEPT ![c] = [op |-> op, collection |-> collection,
                                  text |-> text, top_k |-> top_k, age |-> age]]
  /\ result' = [result EXCEPT ![c] = NoResult]
  /\ local' = [local EXCEPT ![c] = NoLocal]
  /\ UNCHANGED <<store, now, embedModel, tx, rankings, fused>>

\* the call raised: the exception leaves the tool with the connection open
Raise(c, what) ==
  /\ pc' = [pc EXCEPT ![c] = "raised"]
  /\ result' = [result EXCEPT ![c] = [kind |-> "fault", what |-> what]]

\* the call returned: its connection goes out of scope with nothing open
Return(c, value) ==
  /\ pc' = [pc EXCEPT ![c] = "idle"]
  /\ result' = [result EXCEPT ![c] = value]
  /\ UNCHANGED local

\* db.commit(): the uncommitted rows of c become the committed ones, together
Commit(c) ==
  /\ memories' = memories \cup tx[c].memories
  /\ memory_vecs' = memory_vecs \cup tx[c].vecs
  /\ memory_fts' = memory_fts \cup tx[c].fts
  /\ sqlite_sequence' = tx[c].seq
  /\ tx' = [tx EXCEPT ![c] = NoTx]

\* the implicit BEGIN before the first INSERT of a transaction
Begin(c) == IF tx[c].open THEN tx[c]
            ELSE [NoTx EXCEPT !.open = TRUE, !.seq = sqlite_sequence]

\* the migration of get_db: index the text of every record the text index
\* does not hold
MigrationRows(c) ==
  {[rowid |-> m.id, text |-> m.text] :
     m \in {r \in ViewMemories(c) : r.id \notin Rowids(ViewFts(c))}}

get_db(c) ==
  /\ pc[c] = "get_db"
  /\ LockFree(c)
  /\ tx' = [tx EXCEPT ![c] = [Begin(c) EXCEPT !.fts = @ \cup MigrationRows(c)]]
  /\ pc' = [pc EXCEPT ![c] = "get_db_commit"]
  /\ UNCHANGED <<store, now, embedModel, call, local, result, rankings, fused>>

\* where the tool goes on after get_db() returned
AfterGetDb(op) ==
  CASE op = "save_memory" -> "embed"
    [] op = "search_memory" -> "embed"
    [] op = "randomly_remember" -> "select"
    [] op = "list_collections" -> "summarize"

get_db_commit(c) ==
  /\ pc[c] = "get_db_commit"
  /\ Commit(c)
  /\ pc' = [pc EXCEPT ![c] = AfterGetDb(call[c].op)]
  /\ UNCHANGED <<now, embedModel, call, local, result, rankings, fused>>

\* a statement that has to take the write lock gives up waiting for it
Busy(c) ==
  /\ pc[c] \in {"get_db", "insert_memory"}
  /\ ~LockFree(c)
  /\ Raise(c, "database is locked")
  /\ UNCHANGED <<store, now, embedModel, call, tx, local, rankings, fused>>

\* closing the connection commits what it has open
DeallocCommits(c) ==
  /\ pc[c] = "raised"
  /\ pc' = [pc EXCEPT ![c] = "idle"]
  /\ Commit(c)
  /\ UNCHANGED <<now, embedModel, call, local, result, rankings, fused>>

\* the connection of a call that raised is reclaimed: closing it rolls its
\* open transaction back
Dealloc(c) ==
  /\ pc[c] = "raised"
  /\ pc' = [pc EXCEPT ![c] = "idle"]
  /\ tx' = [tx EXCEPT ![c] = NoTx]
  /\ UNCHANGED <<store, now, embedModel, call, local, result, rankings, fused>>

\* the wall clock moves on
Tick ==
  /\ now < MaxClock
  /\ now' = now + 1
  /\ UNCHANGED <<store, embedModel, pc, call, tx, local, result, rankings, fused>>

(* --------------------------- embedding client -------------------------- *)

\* what the request to the embedding service comes to: a vector, a vector of
\* another length than EMBED_DIMS, a URLError, or a body json.loads or
\* resp["data"][0]["embedding"] cannot use
EmbedOutcomes == {"ok", "baddims", "unreachable", "malformed"}

EmbeddingUnavailable == [kind |-> "message", what |-> "Embedding API unavailable"]

\* the record written and committed before the embedding is asked for
EmbeddingFailedAfterInsert(c) ==
  /\ Return(c, EmbeddingUnavailable)
  /\ memories' = memories \cup
       (IF call[c].op = "save_memory"
        THEN {[id |-> Max({sqlite_sequence} \cup Ids(memories)) + 1,
               collection |-> call[c].collection,
               text |-> call[c].text, created_at |-> now]}
        ELSE {})
  /\ UNCHANGED <<memory_vecs, memory_fts, sqlite_sequence, tx>>

\* except RuntimeError as e: return str(e)
EmbeddingFailed(c) ==
  /\ Return(c, EmbeddingUnavailable)
  /\ UNCHANGED <<store, tx>>

\* get_embedding(text) as save_memory and search_memory call it: only the
\* RuntimeError made from a URLError is caught and returned as its message
get_embedding(c) ==
  /\ pc[c] = "embed"
  /\ \E outcome \in EmbedOutcomes :
       CASE outcome = "ok" ->
              /\ local' = [local EXCEPT ![c].embedding = embedModel[call[c].text]]
              /\ pc' = [pc EXCEPT ![c] = IF call[c].op = "save_memory"
                                         THEN "insert_memory" ELSE "vec_search"]
              /\ UNCHANGED <<store, tx, result>>
         [] outcome = "baddims" ->
              /\ local' = [local EXCEPT ![c].embedding = BadVector]
              /\ pc' = [pc EXCEPT ![c] = IF call[c].op = "save_memory"
                                         THEN "insert_memory" ELSE "vec_search"]
              /\ UNCHANGED <<store, tx, result>>
         [] outcome = "unreachable" ->
              EmbeddingFailed(c)
         [] outcome = "malformed" ->
              /\ Raise(c, "malformed embedding response")
              /\ UNCHANGED <<store, tx, local>>
  /\ UNCHANGED <<now, embedModel, call, rankings, fused>>

(* ------------------------------ save_memory ---------------------------- *)

\* AUTOINCREMENT: one more than the largest id the table ever held
NextId(c) == Max({Begin(c).seq} \cup Ids(ViewMemories(c))) + 1

\* the record committed by its own statement (a connection in autocommit)
insert_memory_autocommit(c) ==
  /\ pc[c] = "insert_memory"
  /\ LockFree(c)
  /\ LET id == NextId(c)
     IN /\ memories' = memories \cup
             {[id |-> id, collection |-> call[c].collection,
               text |-> call[c].text, created_at |-> now]}
        /\ sqlite_sequence' = id
        /\ local' = [local EXCEPT ![c].memory_id = id]
  /\ pc' = [pc EXCEPT ![c] = "insert_vec"]
  /\ UNCHANGED <<memory_vecs, memory_fts, now, embedModel, call, tx, result,
                 rankings, fused>>

\* a text the collection already holds is not stored again: the call answers
\* with the id of the record it found
insert_memory_dedup(c) ==
  /\ pc[c] = "insert_memory"
  /\ LockFree(c)
  /\ LET same == {m \in ViewMemories(c) : /\ m.collection = call[c].collection
                                          /\ m.text = call[c].text}
         id == NextId(c)
         row == [id |-> id, collection |-> call[c].collection,
                 text |-> call[c].text, created_at |-> now]
     IN IF same # {}
        THEN /\ tx' = [tx EXCEPT ![c] = Begin(c)]
             /\ local' = [local EXCEPT ![c].memory_id = Max(Ids(same))]
             /\ pc' = [pc EXCEPT ![c] = "commit"]
        ELSE /\ tx' = [tx EXCEPT ![c] = [Begin(c) EXCEPT !.memories = @ \cup {row},
                                                          !.seq = id]]
             /\ local' = [local EXCEPT ![c].memory_id = id]
             /\ pc' = [pc EXCEPT ![c] = "insert_vec"]
  /\ UNCHANGED <<store, now, embedModel, call, result, rankings, fused>>

\* INSERT INTO memories(collection, text); created_at defaults to now
insert_memory(c) ==
  /\ pc[c] = "insert_memory"
  /\ LockFree(c)
  /\ LET id == NextId(c)
         row == [id |-> id, collection |-> call[c].collection,
                 text |-> call[c].text, created_at |-> now]
     IN /\ tx' = [tx EXCEPT ![c] = [Begin(c) EXCEPT !.memories = @ \cup {row},
                                                     !.seq = id]]
        /\ local' = [local EXCEPT ![c].memory_id = id]
  /\ pc' = [pc EXCEPT ![c] = "insert_vec"]
  /\ UNCHANGED <<store, now, embedModel, call, result, rankings, fused>>

\* INSERT INTO memory_vecs(rowid, embedding): vec0 refuses an embedding of
\* the wrong length and a rowid it holds
insert_vec(c) ==
  /\ pc[c] = "insert_vec"
  /\ IF local[c].embedding = BadVector \/ local[c].memory_id \in Rowids(ViewVecs(c))
     THEN /\ Raise(c, "memory_vecs insert failed")
          /\ UNCHANGED tx
     ELSE /\ tx' = [tx EXCEPT ![c].vecs = @ \cup {[rowid |-> local[c].memory_id,
                                                    embedding |-> local[c].embedding]}]
          /\ pc' = [pc EXCEPT ![c] = "insert_fts"]
          /\ UNCHANGED result
  /\ UNCHANGED <<store, now, embedModel, call, local, rankings, fused>>

\* INSERT INTO memory_fts(rowid, text): fts5 refuses a rowid it holds
insert_fts(c) ==
  /\ pc[c] = "insert_fts"
  /\ IF local[c].memory_id \in Rowids(ViewFts(c))
     THEN /\ Raise(c, "memory_fts insert failed")
          /\ UNCHANGED tx
     ELSE /\ tx' = [tx EXCEPT ![c].fts = @ \cup {[rowid |-> local[c].memory_id,
                                                   text |-> call[c].text]}]
          /\ pc' = [pc EXCEPT ![c] = "commit"]
          /\ UNCHANGED result
  /\ UNCHANGED <<store, now, embedModel, call, local, rankings, fused>>

\* db.commit(); return f"Saved memory #{memory_id} to collection ..."
save_commit(c) ==
  /\ pc[c] = "commit"
  /\ Commit(c)
  /\ Return(c, [kind |-> "saved", id |-> local[c].memory_id,
                collection |-> call[c].collection])
  /\ UNCHANGED <<now, embedModel, call, rankings, fused>>

(* ----------------------------- search_memory --------------------------- *)

\* JOIN memories m ON m.id = v.rowid, in the order of the vector rows
RECURSIVE JoinMemories(_, _)
JoinMemories(rowids, rows) ==
  IF rowids = <<>> THEN <<>>
  ELSE (IF Head(rowids) \in Ids(rows)
        THEN <<[id |-> Head(rowids), collection |-> Row(rows, Head(rowids)).collection]>>
        ELSE <<>>)
       \o JoinMemories(Tail(rowids), rows)

\* the k nearest rows of memory_vecs, nearest first, joined to their records:
\* <<id, collection>> pairs of every collection
VectorSearch(c, q, k, ties) ==
  LET vecs == ViewVecs(c)
      dist == [r \in Rowids(vecs) |->
                 Abs((CHOOSE v \in vecs : v.rowid = r).embedding - q)]
  IN JoinMemories(Take(OrderBy(Rowids(vecs), dist, ties), k), ViewMemories(c))

\* every id kept, whatever its collection
FilterCollectionNone(rows, collection) == [i \in 1..Len(rows) |-> rows[i].id]

\* [id for id, coll in vec_results if coll == collection]
RECURSIVE FilterCollection(_, _)
FilterCollection(rows, collection) ==
  IF rows = <<>> THEN <<>>
  ELSE (IF Head(rows).collection = collection THEN <<Head(rows).id>> ELSE <<>>)
       \o FilterCollection(Tail(rows), collection)

\* f.text MATCH query: every token of the query is a token of the text
Matches(text, query) == Range(query) \subseteq Range(text)

\* the rows of memory_fts matching the query whose record is in the
\* collection, best bm25 rank first (with each token once in a text: the
\* shorter text first), at most limit of them
TextSearch(c, query, collection, limit, ties) ==
  LET fts == ViewFts(c)
      hits == {f.rowid : f \in {g \in fts : Matches(g.text, query)}}
      inColl == {r \in hits : \E m \in ViewMemories(c) :
                                 m.id = r /\ m.collection = collection}
      rank == [r \in inColl |-> Len((CHOOSE f \in fts : f.rowid = r).text)]
  IN Take(OrderBy(inColl, rank, ties), limit)

vec_search(c) ==
  /\ pc[c] = "vec_search"
  /\ IF local[c].embedding = BadVector
     THEN /\ Raise(c, "memory_vecs query failed")
          /\ UNCHANGED local
     ELSE \E ties \in TieOrders :
            /\ local' = [local EXCEPT ![c].vec_ids =
                 FilterCollection(VectorSearch(c, local[c].embedding,
                                               call[c].top_k * OverFetch, ties),
                                  call[c].collection)]
            /\ pc' = [pc EXCEPT ![c] = "fts_search"]
            /\ UNCHANGED result
  /\ UNCHANGED <<store, now, embedModel, call, tx, rankings, fused>>

fts_search(c) ==
  /\ pc[c] = "fts_search"
  /\ \E ties \in TieOrders :
       local' = [local EXCEPT ![c].fts_ids =
         TextSearch(c, call[c].text, call[c].collection,
                    call[c].top_k * OverFetch, ties)]
  /\ pc' = [pc EXCEPT ![c] = "fuse"]
  /\ UNCHANGED <<store, now, embedModel, call, tx, result, rankings, fused>>

\* the lines in the order the bulk fetch returns the rows: by id
HydrateUnsorted(rows, top) ==
  LET ids == OrderBy({top[i].id : i \in 1..Len(top)} \cap Ids(rows),
                     [i \in Ids(rows) |-> i], "asc")
  IN [n \in 1..Len(ids) |->
        [id |-> ids[n],
         created_at |-> Row(rows, ids[n]).created_at,
         score |-> Format3(CHOOSE t \in Range(top) : t.id = ids[n]),
         text |-> Row(rows, ids[n]).text]]

\* the lines of the answer: the fetched rows put back in the fused order, an
\* id the fetch did not return left out
RECURSIVE Hydrate(_, _)
Hydrate(rows, top) ==
  IF top = <<>> THEN <<>>
  ELSE (IF Head(top).id \in Ids(rows)
        THEN <<[id |-> Head(top).id,
                created_at |-> Row(rows, Head(top).id).created_at,
                score |-> Format3(Head(top)),
                text |-> Row(rows, Head(top).id).text]>>
        ELSE <<>>)
       \o Hydrate(rows, Tail(top))

fuse(c) ==
  /\ pc[c] = "fuse"
  /\ LET all == reciprocal_rank_fusion(<<local[c].vec_ids, local[c].fts_ids>>, RRF_K)
         top == Take(all, call[c].top_k)
         top_ids == {top[i].id : i \in 1..Len(top)}
         rows == {m \in ViewMemories(c) : m.id \in top_ids}
     IN IF top_ids = {}
        THEN Return(c, [kind |-> "none_found", collection |-> call[c].collection])
        ELSE Return(c, [kind |-> "results", lines |-> Hydrate(rows, top)])
  /\ UNCHANGED <<store, now, embedModel, call, tx, rankings, fused>>

(* --------------------------- randomly_remember ------------------------- *)

\* SELECT ... WHERE collection = ? ORDER BY created_at DESC / ASC LIMIT 20
AgePool(c, collection, age, ties) ==
  LET rows == {m \in ViewMemories(c) : m.collection = collection}
      key == [i \in Ids(rows) |->
                IF age = "recent" THEN 0 - Row(rows, i).created_at
                ELSE Row(rows, i).created_at]
  IN Take(OrderBy(Ids(rows), key, ties), PoolSize)

select(c) ==
  /\ pc[c] = "select"
  /\ LET inColl == {m \in ViewMemories(c) : m.collection = call[c].collection}
         chosen(id) == [kind |-> "memory", id |-> id,
                        created_at |-> Row(inColl, id).created_at,
                        text |-> Row(inColl, id).text]
     IN IF inColl = {}
        THEN Return(c, [kind |-> "none_found", collection |-> call[c].collection])
        ELSE IF call[c].age \in {"recent", "old"}
        THEN \E ties \in TieOrders :
               \* random.choice(rows) of the pool
               \E id \in Range(AgePool(c, call[c].collection, call[c].age, ties)) :
                 Return(c, chosen(id))
        ELSE \* ORDER BY RANDOM() LIMIT 1, then random.choice of the one row
             \E id \in Ids(inColl) : Return(c, chosen(id))
  /\ UNCHANGED <<store, now, embedModel, call, tx, rankings, fused>>

(* --------------------------- list_collections -------------------------- *)

\* SELECT collection, COUNT(*), MAX(created_at) ... GROUP BY collection
Summaries(c) ==
  {[collection |-> k,
    count |-> Cardinality({m \in ViewMemories(c) : m.collection = k}),
    unit |-> IF Cardinality({m \in ViewMemories(c) : m.collection = k}) = 1
             THEN "memory" ELSE "memories",
    last_updated |-> Max({m.created_at : m \in {r \in ViewMemories(c) : r.collection = k}})] :
     k \in {m.collection : m \in ViewMemories(c)}}

summarize(c) ==
  /\ pc[c] = "summarize"
  /\ LET groups == Summaries(c)
         n == Cardinality(groups)
     IN IF groups = {}
        THEN Return(c, [kind |-> "no_collections"])
        ELSE \E lines \in [1..n -> groups] :
               /\ \A i, j \in 1..n : i < j =>
                     /\ lines[i] # lines[j]
                     /\ lines[i].last_updated >= lines[j].last_updated
               /\ Return(c, [kind |-> "collections", lines |-> lines])
  /\ UNCHANGED <<store, now, embedModel, call, tx, rankings, fused>>

(* ------------------------------ tool calls ----------------------------- *)

\* saves that have not returned yet
SavesInFlight ==
  Cardinality({c \in Conns : call[c].op = "save_memory" /\ pc[c] \notin {"idle", "raised"}})

InCollection(collection) == {m \in memories : m.collection = collection}

\* save_memory(collection, text) is called while the store holds fewer than
\* cap records, fewer than capOther of them outside c1
save_memory(c, texts, cap, capOther) ==
  \E collection \in Collections, text \in texts :
    /\ Cardinality(memories) + SavesInFlight < cap
    /\ collection # "c1" =>
         Cardinality(memories \ InCollection("c1")) + SavesInFlight < capOther
    /\ Call(c, "save_memory", collection, text, 0, "any")

search_memory(c, top_ks) ==
  \E collection \in Collections, query \in Texts, top_k \in top_ks :
    Call(c, "search_memory", collection, query, top_k, "any")

randomly_remember(c) ==
  \E collection \in Collections, age \in Ages :
    Call(c, "randomly_remember", collection, Hello, 0, age)

list_collections(c) == Call(c, "list_collections", "c1", Hello, 0, "any")

(* ------------------- calls on two connections at once ------------------ *)

\* connection 1 calls every tool, connection 2 saves
Readers == {1}

Next ==
  \/ \E c \in Conns :
       \/ save_memory(c, Texts, MaxMemories, MaxMemories)
       \/ get_db(c)
       \/ get_db_commit(c)
       \/ Busy(c)
       \/ Dealloc(c)
       \/ get_embedding(c)
       \/ insert_memory(c)
       \/ insert_vec(c)
       \/ insert_fts(c)
       \/ save_commit(c)
  \/ \E c \in Readers :
       \/ search_memory(c, {1})
       \/ randomly_remember(c)
       \/ list_collections(c)
       \/ vec_search(c)
       \/ fts_search(c)
       \/ fuse(c)
       \/ select(c)
       \/ summarize(c)

Spec == Init /\ [][Next]_vars

(* ---------------------- calls one after the other ---------------------- *)

\* the steps every tool starts with, and those of save_memory
SaveSteps(c) ==
  \/ get_db(c)
  \/ get_db_commit(c)
  \/ Dealloc(c)
  \/ get_embedding(c)
  \/ insert_memory(c)
  \/ insert_vec(c)
  \/ insert_fts(c)
  \/ save_commit(c)

SearchSteps(c) ==
  \/ vec_search(c)
  \/ fts_search(c)
  \/ fuse(c)

\* saves and searches with small top_k over a small store
NextSearch ==
  \/ save_memory(1, Texts, MaxSearch, MaxSearch)
  \/ search_memory(1, {1, 2})
  \/ SaveSteps(1)
  \/ SearchSteps(1)

SpecSearch == Init /\ [][NextSearch]_vars

\* saves and searches with the default top_k over a store mostly of c1
NextRoundTrip ==
  \/ save_memory(1, Texts, MaxRoundTrip, MaxOther)
  \/ search_memory(1, {DefaultTopK})
  \/ SaveSteps(1)
  \/ SearchSteps(1)

SpecRoundTrip == Init /\ [][NextRoundTrip]_vars

\* saves of one text while the clock runs, samples and summaries
NextRecall ==
  \/ Tick
  \/ save_memory(1, {Hello}, MaxRecall, MaxRecallOther)
  \/ randomly_remember(1)
  \/ list_collections(1)
  \/ SaveSteps(1)
  \/ select(1)
  \/ summarize(1)

SpecRecall == Init /\ [][NextRecall]_vars

(* ------------------------- the fusion on its own ----------------------- *)

\* rankings as the two searches return them: ids, none twice
Rankings ==
  {r \in UNION {[1..n -> 1..MaxRankId] : n \in 0..MaxRankLen} :
     \A i, j \in 1..Len(r) : i # j => r[i] # r[j]}

InitFusion ==
  /\ InitStore
  /\ InitCalls
  /\ embedModel = [t \in Texts |-> 0]
  /\ rankings \in Rankings \X Rankings
  /\ fused = <<>>

Fuse ==
  /\ fused = <<>>
  /\ fused' = reciprocal_rank_fusion(rankings, RRF_K)
  /\ UNCHANGED <<store, now, embedModel, pc, call, tx, local, result, rankings>>

SpecFusion == InitFusion /\ [][Fuse]_vars

(* =============================== claims ================================ *)

Returned(c, op) == pc[c] = "idle" /\ call[c].op = op

LineIds(c) == [i \in 1..Len(result[c].lines) |-> result[c].lines[i].id]

\* C1: in every reachable state, whatever calls ran and however they failed,
\* every id of the three committed tables is the id of a record with exactly
\* one memory_vecs row and exactly one memory_fts row (so a record exists iff
\* both index rows do, and no index row is orphaned).
C1_StoreConsistent ==
  \A id \in Ids(memories) \cup Rowids(memory_vecs) \cup Rowids(memory_fts) :
    /\ Cardinality({m \in memories : m.id = id}) = 1
    /\ Cardinality({v \in memory_vecs : v.rowid = id}) = 1
    /\ Cardinality({f \in memory_fts : f.rowid = id}) = 1

\* a save whose vector insert raised has been rolled back beside stored records
C1_Witness ==
  \E c \in Conns :
    /\ Returned(c, "save_memory")
    /\ result[c] = [kind |-> "fault", what |-> "memory_vecs insert failed"]
    /\ memories # {}

\* C2: while calls interleave on their own connections, the record, its vector
\* row and its text row reach the committed tables (what every other
\* connection reads) in one and the same step: no step makes one of the three
\* visible without the other two.
C2_VisibleTogether ==
  [][/\ Ids(memories') \ Ids(memories) = Rowids(memory_vecs') \ Rowids(memory_vecs)
     /\ Ids(memories') \ Ids(memories) = Rowids(memory_fts') \ Rowids(memory_fts)
     /\ \A d \in Conns : ~tx'[d].open =>
          /\ Ids(ViewMemories(d)') = Rowids(ViewVecs(d)')
          /\ Ids(ViewMemories(d)') = Rowids(ViewFts(d)')]_vars

\* a reader runs its queries while a save holds its record and vector row
\* uncommitted
C2_Witness ==
  \E c, d \in Conns :
    /\ c # d
    /\ tx[c].memories # {} /\ tx[c].vecs # {}
    /\ pc[d] \in {"vec_search", "fts_search", "fuse", "select", "summarize"}

\* C3: a save_memory or search_memory call whose embedding request finds the
\* service unreachable returns the embedding-unavailable message and leaves
\* the store as it was: the step that returns the message changes no table and
\* leaves no transaction open, and the get_db() steps before it change no
\* table either.
C3_EmbeddingFailureLeavesStore ==
  [][\A c \in Conns :
       /\ (result'[c] = EmbeddingUnavailable /\ result[c] # EmbeddingUnavailable) =>
            /\ call[c].op \in {"save_memory", "search_memory"}
            /\ pc[c] = "embed" /\ pc'[c] = "idle"
            /\ store' = store
            /\ tx[c] = NoTx /\ tx'[c] = NoTx
       /\ (pc[c] \in {"get_db", "get_db_commit", "embed"} /\ pc'[c] # pc[c]) =>
            store' = store]_vars

\* both tools have returned the message, with records in the store
C3_Witness ==
  /\ \E c \in Conns : Returned(c, "save_memory") /\ result[c] = EmbeddingUnavailable
  /\ \E c \in Conns : Returned(c, "search_memory") /\ result[c] = EmbeddingUnavailable
  /\ memories # {}

\* C4: a malformed embedding response is returned to the caller as a message
\* like an unreachable service, never raised as a fault.
C4_MalformedIsMessage ==
  \A c \in Conns :
    ~(result[c].kind = "fault" /\ result[c].what = "malformed embedding response")

\* C5: every memory a search lists belongs to the collection searched.
C5_CollectionIsolation ==
  \A c \in Conns :
    (Returned(c, "search_memory") /\ result[c].kind = "results") =>
      \A i \in 1..Len(result[c].lines) :
        \E m \in memories :
          m.id = result[c].lines[i].id /\ m.collection = call[c].collection

\* a search answered while another collection holds a text matching the query
\* whose vector is the query's
C5_Witness ==
  \E c \in Conns :
    /\ Returned(c, "search_memory") /\ result[c].kind = "results"
    /\ \E m \in memories :
         /\ m.collection # call[c].collection
         /\ Matches(m.text, call[c].text)
         /\ embedModel[m.text] = embedModel[call[c].text]

\* a search call that got its embedding and ran to its end
Searched(c, collection, query, top_k) ==
  /\ Returned(c, "search_memory")
  /\ call[c].collection = collection /\ call[c].text = query /\ call[c].top_k = top_k
  /\ result[c].kind \in {"results", "none_found"}

Listed(c) == IF result[c].kind = "results" THEN Range(LineIds(c)) ELSE {}

RanksOf(ranking, id) == {i - 1 : i \in {j \in 1..Len(ranking) : ranking[j] = id}}

\* num/den = 1/(k + r + 1) for the one rank, or the sum for the two ranks
IsSumOfReciprocals(x, ranks1, ranks2, k) ==
  LET ds == [i \in 1..2 |-> IF i = 1 THEN ranks1 ELSE ranks2]
      d(i) == k + (CHOOSE r \in ds[i] : TRUE) + 1
  IN CASE ranks1 # {} /\ ranks2 # {} -> x.num * d(1) * d(2) = x.den * (d(1) + d(2))
       [] ranks1 # {} /\ ranks2 = {} -> x.num * d(1) = x.den
       [] ranks1 = {} /\ ranks2 # {} -> x.num * d(2) = x.den
       [] OTHER -> FALSE

FusedScore(id) == CHOOSE x \in Range(fused) : x.id = id

\* C7: the fusion scores each id with the sum, over the rankings holding it,
\* of 1/(k + rank + 1); so with k = 60 and two non-empty rankings, an id that
\* both rankings hold scores strictly more than an id that only one ranking
\* holds at a rank the first id has too.
C7_FusionScores ==
  fused # <<>> =>
    LET r1 == rankings[1]
        r2 == rankings[2]
    IN /\ {fused[i].id : i \in 1..Len(fused)} = Range(r1) \cup Range(r2)
       /\ \A i, j \in 1..Len(fused) : i # j => fused[i].id # fused[j].id
       /\ \A i \in 1..Len(fused) :
            IsSumOfReciprocals(fused[i], RanksOf(r1, fused[i].id),
                               RanksOf(r2, fused[i].id), RRF_K)
       /\ \A x \in Range(r1) \cap Range(r2) :
            \A y \in (Range(r1) \cup Range(r2)) \ (Range(r1) \cap Range(r2)) :
              (RanksOf(r1, y) \cup RanksOf(r2, y)) \subseteq
                  (RanksOf(r1, x) \cup RanksOf(r2, x))
                => /\ ScoreGeq(FusedScore(x), FusedScore(y))
                   /\ ~ScoreGeq(FusedScore(y), FusedScore(x))

\* an id of both rankings and an id of one ranking at a rank of the first
C7_Witness ==
  /\ fused # <<>>
  /\ \E x \in Range(rankings[1]) \cap Range(rankings[2]) :
       \E y \in Range(rankings[2]) \ Range(rankings[1]) :
         RanksOf(rankings[2], y) \subseteq RanksOf(rankings[1], x)

\* the n records of a collection created last, and those created first
Newest(collection, n) ==
  {m.id : m \in {r \in InCollection(collection) :
     Cardinality({o \in InCollection(collection) : o.id > r.id}) < n}}
Oldest(collection, n) ==
  {m.id : m \in {r \in InCollection(collection) :
     Cardinality({o \in InCollection(collection) : o.id < r.id}) < n}}

\* C8: randomly_remember(c, "recent") returns one of the 20 records of c
\* created last, randomly_remember(c, "old") one of the 20 created first.
C8_RecallWithinPool ==
  \A c \in Conns :
    (Returned(c, "randomly_remember") /\ result[c].kind = "memory") =>
      /\ call[c].age = "recent" => result[c].id \in Newest(call[c].collection, PoolSize)
      /\ call[c].age = "old" => result[c].id \in Oldest(call[c].collection, PoolSize)
      /\ result[c].id \in Ids(InCollection(call[c].collection))

\* C9: the store only grows, and by fresh ids: no step removes or changes a
\* record, no two records share an id, and a save that returns "saved" adds
\* exactly one record, with the call's collection and text (stored before or
\* not) and an id above every id stored before.
C9_AppendOnly ==
  /\ [](\A m, o \in memories : m.id = o.id => m = o)
  /\ [][/\ memories \subseteq memories'
        /\ \A c \in Conns :
             (pc[c] = "commit" /\ pc'[c] = "idle") =>
               /\ result'[c].kind = "saved"
               /\ \E m \in memories' \ memories :
                    /\ memories' = memories \cup {m}
                    /\ m.id = result'[c].id
                    /\ m.collection = call[c].collection
                    /\ m.text = call[c].text
                    /\ \A o \in memories : o.id < m.id
                    /\ sqlite_sequence < m.id]_vars

\* a save returned its id for a text the collection already held
C9_Witness ==
  \E c \in Conns :
    /\ Returned(c, "save_memory") /\ result[c].kind = "saved"
    /\ \E m \in memories :
         /\ m.id # result[c].id
         /\ m.text = call[c].text /\ m.collection = call[c].collection

\* the fused score of an id, from the rankings the search kept
ExpectedScore(c, id) ==
  LET v == RanksOf(local[c].vec_ids, id)
      f == RanksOf(local[c].fts_ids, id)
      dv == RRF_K + (CHOOSE r \in v : TRUE) + 1
      df == RRF_K + (CHOOSE r \in f : TRUE) + 1
  IN IF v # {} /\ f # {} THEN [num |-> dv + df, den |-> dv * df]
     ELSE IF v # {} THEN [num |-> 1, den |-> dv]
     ELSE [num |-> 1, den |-> df]

\* where an id first entered the fusion: the vector ranking before the text one
FirstEntry(c, id) ==
  LET both == local[c].vec_ids \o local[c].fts_ids
  IN CHOOSE i \in 1..Len(both) : both[i] = id /\ \A j \in 1..(i - 1) : both[j] # id

\* x comes before y in the fused order
FusedBefore(c, x, y) ==
  \/ ~ScoreGeq(ExpectedScore(c, y), ExpectedScore(c, x))
  \/ /\ ScoreGeq(ExpectedScore(c, x), ExpectedScore(c, y))
     /\ FirstEntry(c, x) < FirstEntry(c, y)

\* C10: with top_k >= 1 a search lists min(top_k, candidates) memories, none
\* twice, each before every candidate of lower fused score and before every
\* candidate of equal score that entered the fusion later, listed or not.
C10_FusedOrder ==
  \A c \in Conns :
    (Returned(c, "search_memory") /\ result[c].kind = "results") =>
      LET ids == LineIds(c)
          candidates == Range(local[c].vec_ids) \cup Range(local[c].fts_ids)
      IN /\ Len(ids) <= call[c].top_k
         /\ Len(ids) = call[c].top_k \/ Range(ids) = candidates
         /\ Range(ids) \subseteq candidates
         /\ \A i, j \in 1..Len(ids) : i < j =>
              ids[i] # ids[j] /\ FusedBefore(c, ids[i], ids[j])
         /\ \A i \in 1..Len(ids) : \A y \in candidates \ Range(ids) :
              FusedBefore(c, ids[i], y)
         /\ \A i \in 1..Len(ids) :
              result[c].lines[i].score = Format3(ExpectedScore(c, ids[i]))

\* two memories listed against the order of their ids, a third one cut
C10_Witness ==
  \E c \in Conns :
    /\ Returned(c, "search_memory") /\ result[c].kind = "results"
    /\ Len(result[c].lines) = 2
    /\ result[c].lines[1].id > result[c].lines[2].id
    /\ Cardinality(Range(local[c].vec_ids) \cup Range(local[c].fts_ids)) > 2

====
